---- MODULE Spec2Model ----
(***************************************************************************)
(* TikTok Ads agent (src/tiktok_ads_agent.py): the mock backend            *)
(* (MockTikTokAPI), the tool dispatcher (TikTokAdAgent._execute_tool), the *)
(* turn loop (TikTokAdAgent.chat) and the reset branch of the CLI loop     *)
(* (TikTokAdAgent.start).                                                  *)
(*                                                                         *)
(* Strings the code inspects character by character (tokens, music ids,    *)
(* names, texts) are sequences of one-character strings; strings it only   *)
(* passes along or compares whole (roles, codes, messages) are TLA+        *)
(* strings.  A Python dict is a function whose DOMAIN is its key set.      *)
(***************************************************************************)
EXTENDS Integers, Sequences, FiniteSets, TLC

VARIABLES
    access_token,          \* self.access_token
    conversation_history,  \* self.conversation_history
    pc,                    \* where chat() is: IDLE when no chat call is running
    call,                  \* the planner request in flight: its messages and tools
    tool_calls,            \* assistant_message.tool_calls of the running turn
    done,                  \* iterations of the tool loop completed in this turn
    reply,                 \* what the last chat call returned
    chats,                 \* chat calls made so far
    issued,                \* tool invocations the planner has issued so far
    backend_log,           \* probe: backend operations called by the last dispatch
    stale_markers,         \* probe: music ids validated in a history that reset discarded
    api                    \* a direct call of a MockTikTokAPI operation, and its result

vars == <<access_token, conversation_history, pc, call, tool_calls, done, reply,
          chats, issued, backend_log, stale_markers, api>>

---------------------------------------------------------------------------
(* Bounds of the model. *)

\* chat calls per session
MaxChats == 2
\* tool invocations the planner issues per session
MaxInvocations == 2

---------------------------------------------------------------------------
(* String literals of the source, as character sequences. *)

music_123 == <<"m", "u", "s", "i", "c", "_", "1", "2", "3">>
music_456 == <<"m", "u", "s", "i", "c", "_", "4", "5", "6">>
music_789 == <<"m", "u", "s", "i", "c", "_", "7", "8", "9">>
music_pop_2024 == <<"m", "u", "s", "i", "c", "_", "p", "o", "p", "_", "2", "0", "2", "4">>
music_trending_001 == <<"m", "u", "s", "i", "c", "_", "t", "r", "e", "n", "d", "i", "n", "g", "_", "0", "0", "1">>
music_viral_summer == <<"m", "u", "s", "i", "c", "_", "v", "i", "r", "a", "l", "_", "s", "u", "m", "m", "e", "r">>
music_hiphop_beat == <<"m", "u", "s", "i", "c", "_", "h", "i", "p", "h", "o", "p", "_", "b", "e", "a", "t">>
mock_token_12345 == <<"m", "o", "c", "k", "_", "t", "o", "k", "e", "n", "_", "1", "2", "3", "4", "5">>
DEMO_TOKEN == <<"a", "c", "t", ".", "d", "e", "m", "o", ".", "t", "o", "k", "e", "n", ".", "t", "i", "k", "t", "o", "k", ".", "a", "d", "s", ".", "2", "0", "2", "4">>
ACT_PREFIX == <<"a", "c", "t", ".">>
EXPIRED == <<"e", "x", "p", "i", "r", "e", "d">>
MUSIC_PREFIX == <<"m", "u", "s", "i", "c", "_">>
MUSIC_CUSTOM_PREFIX == <<"m", "u", "s", "i", "c", "_", "c", "u", "s", "t", "o", "m", "_">>
TRACK_PREFIX == <<"T", "r", "a", "c", "k", " ">>
DEFAULT_FILE_INFO == <<"u", "s", "e", "r", "_", "u", "p", "l", "o", "a", "d", ".", "m", "p", "3">>

\* Python's None: a one-element sequence that is no character string.
None == <<"None">>

VALID_MUSIC_IDS ==
    {music_123, music_456, music_789, music_pop_2024, music_trending_001,
     music_viral_summer, music_hiphop_beat}

VALID_TOKENS == {mock_token_12345, DEMO_TOKEN}

---------------------------------------------------------------------------
(* str methods used by the source. *)

\* s.startswith(p)
startswith(s, p) == Len(s) >= Len(p) /\ SubSeq(s, 1, Len(p)) = p

\* sub in s
contains(s, sub) ==
    \E k \in 0..(Len(s) - Len(sub)) : SubSeq(s, k + 1, k + Len(sub)) = sub

UPPER == <<"A", "B", "C", "D", "E", "F", "G", "H", "I", "J", "K", "L", "M",
           "N", "O", "P", "Q", "R", "S", "T", "U", "V", "W", "X", "Y", "Z">>
LOWERCASE == <<"a", "b", "c", "d", "e", "f", "g", "h", "i", "j", "k", "l", "m",
           "n", "o", "p", "q", "r", "s", "t", "u", "v", "w", "x", "y", "z">>

lower_char(c) ==
    IF \E k \in DOMAIN UPPER : UPPER[k] = c
    THEN LOWERCASE[CHOOSE k \in DOMAIN UPPER : UPPER[k] = c]
    ELSE c

\* s.lower()
lower(s) == [k \in DOMAIN s |-> lower_char(s[k])]

\* s.split('_')[-1]: what follows the last underscore (all of s when it has none)
last_field(s) ==
    LET cuts == {k \in DOMAIN s : s[k] = "_"}
        from == IF cuts = {} THEN 0 ELSE CHOOSE k \in cuts : \A j \in cuts : j <= k
    IN  SubSeq(s, from + 1, Len(s))

DIGITS == <<"0", "1", "2", "3", "4", "5", "6", "7", "8", "9">>

RECURSIVE str_int(_)
\* str(n) of a non-negative int, as an f-string formats it
str_int(n) ==
    IF n < 10 THEN <<DIGITS[n + 1]>>
    ELSE Append(str_int(n \div 10), DIGITS[(n % 10) + 1])

\* d.get(key, default)
get(d, key, default) == IF key \in DOMAIN d THEN d[key] ELSE default

---------------------------------------------------------------------------
(* AdPayload. *)

\* an AdPayload instance; music_id and music_option are None when not given
AdPayload(campaign_name, objective, ad_text, cta, music_id, music_option) ==
    [campaign_name |-> campaign_name, objective |-> objective,
     ad_text |-> ad_text, cta |-> cta,
     music_id |-> music_id, music_option |-> music_option]

\* AdPayload.to_dict
to_dict(self) ==
    [campaign_name |-> self.campaign_name,
     objective |-> self.objective,
     creative |-> [text |-> self.ad_text,
                   cta |-> self.cta,
                   music_id |-> self.music_id]]

---------------------------------------------------------------------------
(* MockTikTokAPI.  Each random draw of the source is a parameter. *)

\* with the expiry test made before the allow-list and prefix test
validate_token_expiry_first(token) ==
    IF token = <<>> THEN
        [valid |-> FALSE, error |-> "No access token provided"]
    ELSE IF contains(lower(token), EXPIRED) THEN
        [valid |-> FALSE, error |-> "TOKEN_EXPIRED",
         message |-> "Access token has expired"]
    ELSE IF token \in VALID_TOKENS \/ startswith(token, ACT_PREFIX) THEN
        [valid |-> TRUE, advertiser_id |-> "adv_123456",
         scopes |-> <<"ad.create", "ad.read", "campaign.create">>]
    ELSE
        [valid |-> FALSE, error |-> "INVALID_TOKEN",
         message |-> "Invalid access token"]

\* with "expired" looked for in the token as written, not in token.lower()
validate_token_case_sensitive(token) ==
    IF token = <<>> THEN
        [valid |-> FALSE, error |-> "No access token provided"]
    ELSE IF token \in VALID_TOKENS \/ startswith(token, ACT_PREFIX) THEN
        [valid |-> TRUE, advertiser_id |-> "adv_123456",
         scopes |-> <<"ad.create", "ad.read", "campaign.create">>]
    ELSE IF contains(token, EXPIRED) THEN
        [valid |-> FALSE, error |-> "TOKEN_EXPIRED",
         message |-> "Access token has expired"]
    ELSE
        [valid |-> FALSE, error |-> "INVALID_TOKEN",
         message |-> "Invalid access token"]

validate_token(token) ==
    IF token = <<>> THEN
        [valid |-> FALSE, error |-> "No access token provided"]
    ELSE IF token \in VALID_TOKENS \/ startswith(token, ACT_PREFIX) THEN
        [valid |-> TRUE, advertiser_id |-> "adv_123456",
         scopes |-> <<"ad.create", "ad.read", "campaign.create">>]
    ELSE IF contains(lower(token), EXPIRED) THEN
        [valid |-> FALSE, error |-> "TOKEN_EXPIRED",
         message |-> "Access token has expired"]
    ELSE
        [valid |-> FALSE, error |-> "INVALID_TOKEN",
         message |-> "Invalid access token"]

\* with every id that starts with "music_" taken to be in the library
validate_music_id_any_music(music_id, duration) ==
    IF startswith(music_id, MUSIC_PREFIX) THEN
        [valid |-> TRUE,
         music_title |-> TRACK_PREFIX \o last_field(music_id),
         duration |-> duration,
         message |-> "Music ID validated successfully"]
    ELSE
        [valid |-> FALSE, error_code |-> "INVALID_FORMAT",
         message |-> "Invalid music ID format. Music IDs should start with 'music_'"]

\* duration: the value of random.randint(15, 60)
validate_music_id(music_id, duration) ==
    IF music_id \in VALID_MUSIC_IDS THEN
        [valid |-> TRUE,
         music_title |-> TRACK_PREFIX \o last_field(music_id),
         duration |-> duration,
         message |-> "Music ID validated successfully"]
    ELSE IF startswith(music_id, MUSIC_PREFIX) THEN
        [valid |-> FALSE, error_code |-> "MUSIC_NOT_FOUND",
         message |-> "The music ID does not exist in TikTok's library."]
    ELSE
        [valid |-> FALSE, error_code |-> "INVALID_FORMAT",
         message |-> "Invalid music ID format. Music IDs should start with 'music_'"]

\* passed: the value of random.random() > 0.2; n: random.randint(1000, 9999)
upload_custom_music(file_info, passed, n) ==
    IF passed THEN
        [success |-> TRUE,
         music_id |-> MUSIC_CUSTOM_PREFIX \o str_int(n),
         \* the text ends with the id, which the music_id field holds
         message |-> "Music uploaded successfully. Generated ID: {mock_music_id}"]
    ELSE
        [success |-> FALSE, error_code |-> "UPLOAD_FAILED",
         message |-> "Upload failed. Please ensure file is MP3/WAV and under 10MB."]

error_scenarios ==
    << [success |-> FALSE, error_type |-> "VALIDATION_ERROR",
        error_code |-> "INVALID_MUSIC_ID",
        message |-> "The provided music ID is invalid or no longer available.",
        suggested_action |-> "Choose a different music track or upload custom music.",
        retry_possible |-> TRUE],
       [success |-> FALSE, error_type |-> "RATE_LIMIT",
        error_code |-> "TOO_MANY_REQUESTS",
        message |-> "Rate limit exceeded.",
        suggested_action |-> "Wait a few minutes before trying again.",
        retry_possible |-> TRUE] >>

\* with the token checked only on the failure path
submit_ad_late_check(payload, token, passed, ad, cmp, pick) ==
    IF passed THEN
        [success |-> TRUE,
         ad_id |-> <<"a", "d", "_">> \o str_int(ad),
         campaign_id |-> <<"c", "m", "p", "_">> \o str_int(cmp),
         message |-> "Ad campaign created successfully!",
         payload |-> payload]
    ELSE IF ~validate_token(token)["valid"] THEN
        [success |-> FALSE, error_type |-> "AUTH_ERROR",
         error_code |-> get(validate_token(token), "error", "INVALID_TOKEN"),
         message |-> get(validate_token(token), "message", "Invalid access token"),
         suggested_action |-> "Please obtain a valid access token through OAuth.",
         retry_possible |-> TRUE]
    ELSE
        error_scenarios[pick]

\* passed: random.random() > 0.25; ad, cmp: the two random.randint draws;
\* pick: the index random.choice takes in error_scenarios
submit_ad(payload, token, passed, ad, cmp, pick) ==
    LET token_validation == validate_token(token) IN
    IF ~token_validation["valid"] THEN
        [success |-> FALSE, error_type |-> "AUTH_ERROR",
         error_code |-> get(token_validation, "error", "INVALID_TOKEN"),
         message |-> get(token_validation, "message", "Invalid access token"),
         suggested_action |-> "Please obtain a valid access token through OAuth.",
         retry_possible |-> TRUE]
    ELSE IF passed THEN
        [success |-> TRUE,
         ad_id |-> <<"a", "d", "_">> \o str_int(ad),
         campaign_id |-> <<"c", "m", "p", "_">> \o str_int(cmp),
         message |-> "Ad campaign created successfully!",
         payload |-> payload]
    ELSE
        error_scenarios[pick]

---------------------------------------------------------------------------
(* Values of the turn loop. *)

\* A call that returned value v, having called the backend operations in calls.
Return(v, calls) == [raised |-> FALSE, value |-> v, calls |-> calls]
\* A call that raised the exception exc.
Raise(exc) == [raised |-> TRUE, exc |-> exc, calls |-> <<>>]

\* What json.loads makes of the text of a tool call's arguments.  The text is
\* kept by what it encodes: a JSON object, another JSON value, or no JSON.
json_loads(arguments) ==
    IF arguments.kind = "object" THEN
        Return([type |-> "dict", items |-> arguments.value], <<>>)
    ELSE IF arguments.kind = "array" THEN
        Return([type |-> "list"], <<>>)
    ELSE Raise("JSONDecodeError")

\* json.dumps(v): the JSON text of v
json_dumps(v) == <<"json", v>>

\* The draws one dispatch may consume.
Draws(durations, upload_ids, ad_ids, campaign_ids) ==
    [duration : durations, upload_passed : BOOLEAN, upload_n : upload_ids,
     submit_passed : BOOLEAN, ad : ad_ids, cmp : campaign_ids,
     pick : DOMAIN error_scenarios]

\* the branch of _execute_tool for validate_music_id
run_validate_music_id(tool_args, rnd) ==
    IF tool_args.type # "dict" THEN Raise("TypeError")
    ELSE IF "music_id" \notin DOMAIN tool_args.items THEN Raise("KeyError")
    ELSE Return(validate_music_id(tool_args.items["music_id"], rnd.duration),
                << [op |-> "validate_music_id"] >>)

\* the branch of _execute_tool for upload_custom_music
run_upload_custom_music(tool_args, rnd) ==
    IF tool_args.type # "dict" THEN Raise("AttributeError")
    ELSE Return(upload_custom_music(
                    get(tool_args.items, "file_info", DEFAULT_FILE_INFO),
                    rnd.upload_passed, rnd.upload_n),
                << [op |-> "upload_custom_music"] >>)

\* with a music_id the arguments lack filled in from the session: the id an
\* earlier validate_music_id call of the history was made for
build_payload_stored(items) ==
    LET recorded ==
            UNION { {conversation_history[k].tool_calls[j] :
                        j \in DOMAIN conversation_history[k].tool_calls} :
                    k \in {k \in DOMAIN conversation_history :
                              "tool_calls" \in DOMAIN conversation_history[k]} }
        remembered ==
            {tc.function.arguments.value["music_id"] :
                tc \in {c \in recorded :
                          /\ c.function.name = "validate_music_id"
                          /\ c.function.arguments.kind = "object"
                          /\ "music_id" \in DOMAIN c.function.arguments.value}}
    IN  [campaign_name |-> items["campaign_name"],
         objective |-> items["objective"],
         creative |-> [text |-> items["ad_text"],
                       cta |-> items["cta"],
                       music_id |->
                           IF "music_id" \in DOMAIN items THEN items["music_id"]
                           ELSE IF remembered # {}
                                THEN CHOOSE m \in remembered : TRUE
                                ELSE None]]

\* the payload the submit_tiktok_ad branch builds from the arguments
build_payload(items) ==
    [campaign_name |-> items["campaign_name"],
     objective |-> items["objective"],
     creative |-> [text |-> items["ad_text"],
                   cta |-> items["cta"],
                   music_id |-> get(items, "music_id", None)]]

\* with music_id read as tool_args["music_id"], so that a submit needs one
run_submit_tiktok_ad_needs_music(tool_args, token, rnd) ==
    IF tool_args.type # "dict" THEN Raise("TypeError")
    ELSE IF {"campaign_name", "objective", "ad_text", "cta", "music_id"}
                \ DOMAIN tool_args.items # {} THEN Raise("KeyError")
    ELSE Return(submit_ad(build_payload(tool_args.items), token,
                          rnd.submit_passed, rnd.ad, rnd.cmp, rnd.pick),
                << [op |-> "submit_ad",
                    payload |-> build_payload(tool_args.items),
                    access_token |-> token] >>)

\* the branch of _execute_tool for submit_tiktok_ad, self.access_token as token
run_submit_tiktok_ad(tool_args, token, rnd) ==
    IF tool_args.type # "dict" THEN Raise("TypeError")
    ELSE IF {"campaign_name", "objective", "ad_text", "cta"}
                \ DOMAIN tool_args.items # {} THEN Raise("KeyError")
    ELSE Return(submit_ad(build_payload(tool_args.items), token,
                          rnd.submit_passed, rnd.ad, rnd.cmp, rnd.pick),
                << [op |-> "submit_ad",
                    payload |-> build_payload(tool_args.items),
                    access_token |-> token] >>)

\* with an unknown tool name raising instead of returning the error dict
_execute_tool_strict(tool_name, tool_args, token, rnd) ==
    IF tool_name = "validate_music_id" THEN run_validate_music_id(tool_args, rnd)
    ELSE IF tool_name = "upload_custom_music" THEN
        run_upload_custom_music(tool_args, rnd)
    ELSE IF tool_name = "submit_tiktok_ad" THEN
        run_submit_tiktok_ad(tool_args, token, rnd)
    ELSE Raise("ValueError")

\* TikTokAdAgent._execute_tool, with self.access_token as token
_execute_tool(tool_name, tool_args, token, rnd) ==
    IF tool_name = "validate_music_id" THEN run_validate_music_id(tool_args, rnd)
    ELSE IF tool_name = "upload_custom_music" THEN
        run_upload_custom_music(tool_args, rnd)
    ELSE IF tool_name = "submit_tiktok_ad" THEN
        run_submit_tiktok_ad(tool_args, token, rnd)
    ELSE Return([error |-> "Unknown tool"], <<>>)

\* One pass of the body of the tool loop of chat() for tool_call: parse the
\* arguments, then dispatch.
run_tool_call(tool_call, token, rnd) ==
    LET parsed == json_loads(tool_call.function.arguments) IN
    IF parsed.raised THEN parsed
    ELSE _execute_tool(tool_call.function.name, parsed.value, token, rnd)

SYSTEM_MESSAGE == [role |-> "system", content |-> "system_prompt"]

\* The request of a planner call: [system prompt, *conversation_history], and
\* whether tools=TOOLS is passed.
Request(history, with_tools) ==
    [messages |-> <<SYSTEM_MESSAGE>> \o history, tools |-> with_tools]

NoCall == [messages |-> <<>>, tools |-> FALSE]
\* What chat() returned: nothing yet, the planner's text, or the error message.
NoReply == [kind |-> "none", content |-> ""]
Text(content) == [kind |-> "text", content |-> content]
\* The string chat() returns from its except branch:
\* "Error communicating with AI: " followed by str(e), here the name of e.
error_msg(exc) == [kind |-> "error", content |-> exc]

---------------------------------------------------------------------------
(* The inputs the model draws from. *)

\* What the agent is constructed with as access_token, None when not given.
SessionTokenArgs == {None, <<"t", "o", "k", "e", "n", "_", "e", "x", "p", "i", "r", "e", "d", "_", "x", "y", "z">>}

UserInputs == {"user text"}
PlannerTexts == {"assistant text"}
\* What a planner call raises when it fails: a transport error or timeout, or
\* a response without choices.
PlannerErrors == {"APITimeoutError", "IndexError"}

Object(value) == [kind |-> "object", value |-> value]
NotJson == [kind |-> "invalid"]
JsonArray == [kind |-> "array"]

Name4 == <<"S", "a", "l", "e">>
Text3 == <<"B", "u", "y">>

SubmitArgs(objective, music_option) ==
    [campaign_name |-> Name4, objective |-> objective, ad_text |-> Text3,
     cta |-> "Shop Now", music_option |-> music_option]

\* name and arguments of the tool calls the planner issues in a session
SessionInvocations ==
    { [name |-> "validate_music_id", arguments |-> Object([music_id |-> music_123])],
      [name |-> "validate_music_id", arguments |-> Object(<<>>)],
      [name |-> "upload_custom_music", arguments |-> Object(<<>>)],
      [name |-> "submit_tiktok_ad",
       arguments |-> Object(SubmitArgs("Conversions", "existing")
                              @@ [music_id |-> music_123])],
      [name |-> "submit_tiktok_ad",
       arguments |-> Object(SubmitArgs("Traffic", "none"))],
      [name |-> "submit_tiktok_ad", arguments |-> NotJson],
      [name |-> "delete_campaign", arguments |-> Object(<<>>)] }

\* The session draws the low end of each integer range; both outcomes of each
\* success test and both error scenarios stay open.
SessionDraws == Draws({15}, {1000}, {100000}, {10000})

---------------------------------------------------------------------------
(* The validated-music markers of the specification (its glossary: a music *)
(* id for which validate_music_id or upload_custom_music has returned      *)
(* success in the current session).  The source keeps no such marker; the  *)
(* history determines them.                                                *)

\* the tool calls recorded in the assistant messages of history
RecordedCalls(history) ==
    UNION { {history[k].tool_calls[j] : j \in DOMAIN history[k].tool_calls} :
            k \in {k \in DOMAIN history : "tool_calls" \in DOMAIN history[k]} }

\* the tool results recorded in history
RecordedResults(history) ==
    {history[k] : k \in {k \in DOMAIN history : history[k].role = "tool"}}

\* the music id that result marks as validated when it answers tool_call, in a set
Marked(tool_call, result) ==
    IF /\ tool_call.function.name = "validate_music_id"
       /\ "valid" \in DOMAIN result
       /\ result.valid
    THEN {tool_call.function.arguments.value.music_id}
    ELSE IF /\ tool_call.function.name = "upload_custom_music"
            /\ "success" \in DOMAIN result
            /\ result.success
    THEN {result.music_id}
    ELSE {}

ValidatedIds(history) ==
    UNION { Marked(tc, r.content[2]) :
            <<tc, r>> \in {p \in RecordedCalls(history) \X RecordedResults(history) :
                              p[1].id = p[2].tool_call_id} }

---------------------------------------------------------------------------
(* TikTokAdAgent: construction, chat(), and reset in start(). *)

\* no direct backend call
NoApi == [op |-> "none"]

\* __init__: self.access_token = access_token or "act.demo.token.tiktok.ads.2024"
Construct(token_arg) ==
    /\ access_token = IF token_arg \in {None, <<>>} THEN DEMO_TOKEN ELSE token_arg
    /\ conversation_history = <<>>
    /\ pc = "IDLE"
    /\ call = NoCall
    /\ tool_calls = <<>>
    /\ done = 0
    /\ reply = NoReply
    /\ chats = 0
    /\ issued = 0
    /\ backend_log = <<>>
    /\ stale_markers = {}

Init ==
    /\ \E token_arg \in SessionTokenArgs : Construct(token_arg)
    /\ api = NoApi

\* chat(): append the user message and make the first planner call
Chat(user_input) ==
    /\ pc = "IDLE"
    /\ chats < MaxChats
    /\ chats' = chats + 1
    /\ conversation_history' =
           Append(conversation_history, [role |-> "user", content |-> user_input])
    /\ call' = Request(conversation_history', TRUE)
    /\ pc' = "AWAITING_PLANNER_RESPONSE"
    /\ reply' = NoReply
    /\ backend_log' = <<>>
    /\ UNCHANGED <<access_token, tool_calls, done, issued, stale_markers, api>>

\* with the planner's text returned but not appended to the history
PlannerText_unrecorded(content) ==
    /\ pc = "AWAITING_PLANNER_RESPONSE"
    /\ reply' = Text(content)
    /\ pc' = "IDLE"
    /\ call' = NoCall
    /\ backend_log' = <<>>
    /\ UNCHANGED <<access_token, conversation_history, tool_calls, done, chats,
                   issued, stale_markers, api>>

\* the else branch: the planner answered with text
PlannerText(content) ==
    /\ pc = "AWAITING_PLANNER_RESPONSE"
    /\ conversation_history' =
           Append(conversation_history, [role |-> "assistant", content |-> content])
    /\ reply' = Text(content)
    /\ pc' = "IDLE"
    /\ call' = NoCall
    /\ backend_log' = <<>>
    /\ UNCHANGED <<access_token, tool_calls, done, chats, issued, stale_markers, api>>

\* the tool_calls the planner returns for a sequence of invocations: ids are
\* unique in the session
ToolCalls(invocations, first_id) ==
    [k \in DOMAIN invocations |->
        [id |-> first_id + k - 1, type |-> "function",
         function |-> [name |-> invocations[k].name,
                       arguments |-> invocations[k].arguments]]]

Seqs(S, n) == UNION {[1..k -> S] : k \in 1..n}

\* the planner answered with tool calls: record them in the history
PlannerToolCalls(invocations) ==
    /\ Len(invocations) >= 1
    /\ issued + Len(invocations) <= MaxInvocations
    /\ issued' = issued + Len(invocations)
    /\ tool_calls' = ToolCalls(invocations, issued + 1)
    /\ conversation_history' =
           Append(conversation_history,
                  [role |-> "assistant", content |-> "", tool_calls |-> tool_calls'])
    /\ done' = 0
    /\ pc' = "EXECUTING_TOOLS"
    /\ call' = NoCall
    /\ backend_log' = <<>>
    /\ UNCHANGED <<access_token, reply, chats, stale_markers, api>>

\* with the except branch leaving the turn where the exception was raised
Abort_stuck(exc) ==
    /\ reply' = error_msg(exc)
    /\ pc' = pc
    /\ call' = NoCall
    /\ tool_calls' = <<>>
    /\ done' = 0

\* the except branch: return the error message
Abort(exc) ==
    /\ reply' = error_msg(exc)
    /\ pc' = "IDLE"
    /\ call' = NoCall
    /\ tool_calls' = <<>>
    /\ done' = 0

\* with the failed turn's user message taken back out of the history
PlannerFails_rollback(exc) ==
    /\ pc = "AWAITING_PLANNER_RESPONSE"
    /\ Abort(exc)
    /\ backend_log' = <<>>
    /\ conversation_history' =
           SubSeq(conversation_history, 1, Len(conversation_history) - 1)
    /\ UNCHANGED <<access_token, chats, issued, stale_markers, api>>

\* the first planner call raised
PlannerFails(exc) ==
    /\ pc = "AWAITING_PLANNER_RESPONSE"
    /\ Abort(exc)
    /\ backend_log' = <<>>
    /\ UNCHANGED <<access_token, conversation_history, chats, issued, stale_markers, api>>

\* what one pass of the loop body can come to, over the draws it may consume
Outcomes(tool_call, token, draws) ==
    {run_tool_call(tool_call, token, rnd) : rnd \in draws}

\* with the summary call made as soon as the first tool result is appended
LoopBody_early_summary(tool_call, draws) ==
    \E out \in Outcomes(tool_call, access_token, draws) :
        /\ backend_log' = out.calls
        /\ IF out.raised THEN
               /\ Abort(out.exc)
               /\ UNCHANGED conversation_history
           ELSE
               /\ conversation_history' =
                      Append(conversation_history,
                             [role |-> "tool", tool_call_id |-> tool_call.id,
                              content |-> json_dumps(out.value)])
               /\ done' = done + 1
               /\ reply' = reply
               /\ pc' = "AWAITING_SUMMARY"
               /\ call' = Request(conversation_history', FALSE)
               /\ tool_calls' = tool_calls

\* the body of the tool loop for tool_call; after the last iteration the
\* summary call is made
LoopBody(tool_call, draws) ==
    \E out \in Outcomes(tool_call, access_token, draws) :
        /\ backend_log' = out.calls
        /\ IF out.raised THEN
               /\ Abort(out.exc)
               /\ UNCHANGED conversation_history
           ELSE
               /\ conversation_history' =
                      Append(conversation_history,
                             [role |-> "tool", tool_call_id |-> tool_call.id,
                              content |-> json_dumps(out.value)])
               /\ done' = done + 1
               /\ reply' = reply
               /\ IF done' = Len(tool_calls) THEN
                      /\ pc' = "AWAITING_SUMMARY"
                      /\ call' = Request(conversation_history', FALSE)
                      /\ tool_calls' = tool_calls
                  ELSE
                      UNCHANGED <<pc, call, tool_calls>>

\* with the loop going through the tool calls last to first
ExecuteTool_backwards(draws) ==
    /\ pc = "EXECUTING_TOOLS"
    /\ done < Len(tool_calls)
    /\ LoopBody(tool_calls[Len(tool_calls) - done], draws)
    /\ UNCHANGED <<access_token, chats, issued, stale_markers, api>>

\* one iteration of: for tool_call in assistant_message.tool_calls
ExecuteTool(draws) ==
    /\ pc = "EXECUTING_TOOLS"
    /\ done < Len(tool_calls)
    /\ LoopBody(tool_calls[done + 1], draws)
    /\ UNCHANGED <<access_token, chats, issued, stale_markers, api>>

\* with the summary put in the place of the tool results of the turn
SummaryReturns_compact(final_content) ==
    /\ pc = "AWAITING_SUMMARY"
    /\ conversation_history' =
           Append(SubSeq(conversation_history, 1,
                         Len(conversation_history) - Len(tool_calls)),
                  [role |-> "assistant", content |-> final_content])
    /\ reply' = Text(final_content)
    /\ pc' = "IDLE"
    /\ call' = NoCall
    /\ tool_calls' = <<>>
    /\ done' = 0
    /\ backend_log' = <<>>
    /\ UNCHANGED <<access_token, chats, issued, stale_markers, api>>

\* the summary call returned
SummaryReturns(final_content) ==
    /\ pc = "AWAITING_SUMMARY"
    /\ conversation_history' =
           Append(conversation_history,
                  [role |-> "assistant", content |-> final_content])
    /\ reply' = Text(final_content)
    /\ pc' = "IDLE"
    /\ call' = NoCall
    /\ tool_calls' = <<>>
    /\ done' = 0
    /\ backend_log' = <<>>
    /\ UNCHANGED <<access_token, chats, issued, stale_markers, api>>

\* the summary call raised
SummaryFails(exc) ==
    /\ pc = "AWAITING_SUMMARY"
    /\ Abort(exc)
    /\ backend_log' = <<>>
    /\ UNCHANGED <<access_token, conversation_history, chats, issued, stale_markers, api>>

\* start(): the user typed 'reset' at the prompt
Reset ==
    /\ pc = "IDLE"
    /\ conversation_history' = <<>>
    /\ stale_markers' = stale_markers \cup ValidatedIds(conversation_history)
    /\ backend_log' = <<>>
    /\ UNCHANGED <<access_token, pc, call, tool_calls, done, reply, chats, issued, api>>

\* the planner answers the first call of the turn with some tool calls out of
\* the given invocations
PlannerCallsTools(known) ==
    /\ pc = "AWAITING_PLANNER_RESPONSE"
    /\ \E invocations \in Seqs(known, MaxInvocations - issued) :
          PlannerToolCalls(invocations)

Next ==
    \/ \E user_input \in UserInputs : Chat(user_input)
    \/ \E content \in PlannerTexts : PlannerText(content)
    \/ PlannerCallsTools(SessionInvocations)
    \/ \E exc \in PlannerErrors : PlannerFails(exc)
    \/ ExecuteTool(SessionDraws)
    \/ \E final_content \in PlannerTexts : SummaryReturns(final_content)
    \/ \E exc \in PlannerErrors : SummaryFails(exc)
    \/ Reset

Spec == Init /\ [][Next]_vars

---------------------------------------------------------------------------
(* The session with the progress of a running chat call.  chat() is one     *)
(* sequential function: once called it runs on to its return as long as     *)
(* each planner call and each backend call it waits for returns or raises.  *)

\* The tool calls of these sessions: a validation that returns, a submission
\* that goes to the backend, one that raises in json.loads, one that raises
\* in _execute_tool, and an unknown tool.
LiveInvocations ==
    { [name |-> "validate_music_id", arguments |-> Object([music_id |-> music_123])],
      [name |-> "submit_tiktok_ad",
       arguments |-> Object(SubmitArgs("Traffic", "none"))],
      [name |-> "submit_tiktok_ad", arguments |-> NotJson],
      [name |-> "validate_music_id", arguments |-> Object(<<>>)],
      [name |-> "delete_campaign", arguments |-> Object(<<>>)] }

InitLive ==
    /\ Construct(None)
    /\ api = NoApi

\* a step of a running chat call
TurnStep ==
    \/ \E content \in PlannerTexts : PlannerText(content)
    \/ PlannerCallsTools(LiveInvocations)
    \/ \E exc \in PlannerErrors : PlannerFails(exc)
    \/ ExecuteTool(SessionDraws)
    \/ \E final_content \in PlannerTexts : SummaryReturns(final_content)
    \/ \E exc \in PlannerErrors : SummaryFails(exc)

NextLive ==
    \/ \E user_input \in UserInputs : Chat(user_input)
    \/ TurnStep
    \/ Reset

SpecLive == InitLive /\ [][NextLive]_vars /\ WF_vars(TurnStep)

---------------------------------------------------------------------------
(* One dispatch, over a wide range of tokens and invocations: the agent is *)
(* in its first turn and the planner has just answered with one tool call. *)

token_expired_xyz == <<"t", "o", "k", "e", "n", "_", "e", "x", "p", "i", "r", "e", "d", "_", "x", "y", "z">>
act_expired == <<"a", "c", "t", ".", "e", "x", "p", "i", "r", "e", "d">>
tok_EXPIRED == <<"t", "o", "k", "_", "E", "X", "P", "I", "R", "E", "D">>
badtoken == <<"b", "a", "d", "t", "o", "k", "e", "n">>
music_unknown_999 == <<"m", "u", "s", "i", "c", "_", "u", "n", "k", "n", "o", "w", "n", "_", "9", "9", "9">>
xyz == <<"x", "y", "z">>
Music_123 == <<"M", "u", "s", "i", "c", "_", "1", "2", "3">>

WideTokenArgs == {None, <<>>, mock_token_12345, act_expired, token_expired_xyz, badtoken}

\* a text of n characters
TextOfLen(n) == [k \in 1..n |-> "x"]

\* the dicts that hold key with one of values, or lack it
Opt(key, values) == {<<>>} \cup {key :> v : v \in values}

WideSubmitArgs ==
    { a @@ b @@ c @@ d @@ e @@ f :
        a \in Opt("campaign_name", {TextOfLen(2), TextOfLen(3)}),
        b \in Opt("objective", {"Traffic", "Conversions", "Sales"}),
        c \in Opt("ad_text", {TextOfLen(100), TextOfLen(101)}),
        d \in Opt("cta", {"Shop Now"}),
        e \in Opt("music_option", {"existing", "custom", "none"}),
        f \in Opt("music_id", {music_123, music_unknown_999}) }

WideMusicIds == VALID_MUSIC_IDS \cup {music_unknown_999, xyz, Music_123, <<>>}

WideInvocations ==
    {[name |-> "submit_tiktok_ad", arguments |-> Object(a)] : a \in WideSubmitArgs}
    \cup {[name |-> "validate_music_id", arguments |-> Object([music_id |-> m])] :
             m \in WideMusicIds}
    \cup {[name |-> "upload_custom_music", arguments |-> Object(a)] :
             a \in Opt("file_info", {<<"a", ".", "w", "a", "v">>})}
    \cup {[name |-> n, arguments |-> a] :
             n \in {"validate_music_id", "upload_custom_music", "submit_tiktok_ad",
                    "delete_campaign"},
             a \in {Object(<<>>), JsonArray, NotJson}}

WideDraws == Draws({15, 60}, {1000, 9999}, {100000}, {10000})

InitDispatch ==
    \E token_arg \in WideTokenArgs, invocation \in WideInvocations,
       user_input \in UserInputs :
        /\ access_token = IF token_arg \in {None, <<>>} THEN DEMO_TOKEN ELSE token_arg
        /\ tool_calls = ToolCalls(<<invocation>>, 1)
        /\ conversation_history =
               << [role |-> "user", content |-> user_input],
                  [role |-> "assistant", content |-> "", tool_calls |-> tool_calls] >>
        /\ pc = "EXECUTING_TOOLS"
        /\ call = NoCall
        /\ done = 0
        /\ reply = NoReply
        /\ chats = 1
        /\ issued = 1
        /\ backend_log = <<>>
        /\ stale_markers = {}
        /\ api = NoApi

NextDispatch ==
    \/ ExecuteTool(WideDraws)
    \/ \E final_content \in PlannerTexts : SummaryReturns(final_content)
    \/ \E exc \in PlannerErrors : SummaryFails(exc)

SpecDispatch == InitDispatch /\ [][NextDispatch]_vars

---------------------------------------------------------------------------
(* The operations of MockTikTokAPI called directly, one call per behaviour. *)

\* random.randint(a, b)
randint(a, b) == a..b
\* random.randint(a, b) over a range too wide to go through: its two ends
randint_ends(a, b) == {a, b}

BackendTokens ==
    {<<>>, mock_token_12345, DEMO_TOKEN, act_expired, token_expired_xyz,
     tok_EXPIRED, badtoken}

BackendPayloads ==
    { [campaign_name |-> Name4, objective |-> obj,
       creative |-> [text |-> Text3, cta |-> "Shop Now", music_id |-> m]] :
         obj \in {"Traffic", "Conversions"}, m \in {None, music_123} }

Called(op, args) == [op |-> op, state |-> "called", args |-> args]
Returned(result) ==
    [op |-> api.op, state |-> "returned", args |-> api.args, result |-> result]

BackendCalls ==
    {Called("validate_token", [token |-> t]) : t \in BackendTokens}
    \cup {Called("validate_music_id", [music_id |-> m]) : m \in WideMusicIds}
    \cup {Called("upload_custom_music", [file_info |-> DEFAULT_FILE_INFO])}
    \cup {Called("submit_ad", [payload |-> p, access_token |-> t]) :
             p \in BackendPayloads, t \in BackendTokens}

InitBackend ==
    /\ Construct(None)
    /\ api \in BackendCalls

AgentVars == <<access_token, conversation_history, pc, call, tool_calls, done,
               reply, chats, issued, backend_log, stale_markers>>

ApiValidateToken ==
    /\ api.op = "validate_token" /\ api.state = "called"
    /\ api' = Returned(validate_token(api.args.token))
    /\ UNCHANGED AgentVars

ApiValidateMusicId ==
    /\ api.op = "validate_music_id" /\ api.state = "called"
    /\ \E duration \in randint(15, 60) :
          api' = Returned(validate_music_id(api.args.music_id, duration))
    /\ UNCHANGED AgentVars

ApiUploadCustomMusic ==
    /\ api.op = "upload_custom_music" /\ api.state = "called"
    /\ \E passed \in BOOLEAN, n \in randint_ends(1000, 9999) :
          api' = Returned(upload_custom_music(api.args.file_info, passed, n))
    /\ UNCHANGED AgentVars

ApiSubmitAd ==
    /\ api.op = "submit_ad" /\ api.state = "called"
    /\ \E passed \in BOOLEAN, ad \in randint_ends(100000, 999999),
          cmp \in randint_ends(10000, 99999), pick \in DOMAIN error_scenarios :
          api' = Returned(submit_ad(api.args.payload, api.args.access_token,
                                    passed, ad, cmp, pick))
    /\ UNCHANGED AgentVars

NextBackend ==
    \/ ApiValidateToken
    \/ ApiValidateMusicId
    \/ ApiUploadCustomMusic
    \/ ApiSubmitAd

SpecBackend == InitBackend /\ [][NextBackend]_vars

---------------------------------------------------------------------------
(* The Business Rule Validator of the specification (its section 4.2).  The *)
(* source has no counterpart; the claims below are stated with it.         *)

MIN_CAMPAIGN_NAME == 3
MAX_AD_TEXT == 100

Violation(code, field) == [code |-> code, field |-> field]

\* validate(draft): draft is the dict of the invocation's arguments, validated
\* the set of music ids validated so far
validate(draft, validated) ==
    {Violation("MISSING_FIELD", f) :
        f \in {"campaign_name", "objective", "ad_text", "cta", "music_option"}
              \ DOMAIN draft}
    \cup (IF "campaign_name" \in DOMAIN draft
             /\ Len(draft["campaign_name"]) < MIN_CAMPAIGN_NAME
          THEN {Violation("TOO_SHORT", "campaign_name")} ELSE {})
    \cup (IF "objective" \in DOMAIN draft
             /\ draft["objective"] \notin {"Traffic", "Conversions"}
          THEN {Violation("INVALID_ENUM", "objective")} ELSE {})
    \cup (IF "ad_text" \in DOMAIN draft /\ Len(draft["ad_text"]) > MAX_AD_TEXT
          THEN {Violation("TOO_LONG", "ad_text")} ELSE {})
    \cup (IF /\ get(draft, "objective", "") = "Conversions"
             /\ "music_option" \in DOMAIN draft
             /\ draft["music_option"] \notin {"existing", "custom"}
          THEN {Violation("MUSIC_REQUIRED", "music_option")} ELSE {})
    \cup (IF /\ get(draft, "objective", "") \in {"Traffic", "Conversions"}
             /\ get(draft, "music_option", "") = "existing"
             /\ get(draft, "music_id", None) \notin validated
          THEN {Violation("MUSIC_NOT_VALIDATED", "music_id")} ELSE {})

is_submittable(draft, validated) == validate(draft, validated) = {}

\* result is the structured rejection of the dispatcher
IsRejection(result) ==
    /\ {"success", "error_type", "violations"} \subseteq DOMAIN result
    /\ ~result.success
    /\ result.error_type = "VALIDATION_ERROR"

\* result is a rejection that reports the violation code
Rejects(result, code) ==
    /\ IsRejection(result)
    /\ \E v \in result.violations : v.code = code

---------------------------------------------------------------------------
(* The dispatch that has just returned. *)

\* a dispatch has returned and the turn is still running
Dispatched == pc \in {"EXECUTING_TOOLS", "AWAITING_SUMMARY"} /\ done >= 1
\* its tool call, its name, its arguments, its result
LastCall == tool_calls[done]
LastName == LastCall.function.name
LastArgs == LastCall.function.arguments.value
LastResult == conversation_history[Len(conversation_history)].content[2]
\* the history it was dispatched in
HistoryBefore == SubSeq(conversation_history, 1, Len(conversation_history) - 1)
SubmitDispatched ==
    /\ Dispatched
    /\ LastName = "submit_tiktok_ad"
SubmitForwarded ==
    \E k \in DOMAIN backend_log : backend_log[k].op = "submit_ad"

---------------------------------------------------------------------------
(* Claims. *)

\* C1: a dispatched submit_tiktok_ad calls the backend submit_ad only if the
\* validator reports no violation for its arguments at that moment; with a
\* violation the result is the structured VALIDATION_ERROR rejection and
\* submit_ad is not called.
C1_SubmitOnlyIfSubmittable ==
    SubmitDispatched =>
        IF is_submittable(LastArgs, ValidatedIds(HistoryBefore))
        THEN TRUE
        ELSE ~SubmitForwarded /\ IsRejection(LastResult)

\* C2: a submit_tiktok_ad with music_option=existing reaches the backend only
\* if its music_id was answered as valid by an earlier validate_music_id or
\* upload_custom_music of the session; otherwise it is rejected with
\* MUSIC_NOT_VALIDATED.
C2_ExistingMusicValidatedFirst ==
    (SubmitDispatched /\ get(LastArgs, "music_option", "") = "existing") =>
        \/ get(LastArgs, "music_id", None) \in ValidatedIds(HistoryBefore)
        \/ ~SubmitForwarded /\ Rejects(LastResult, "MUSIC_NOT_VALIDATED")

\* C3: after reset the markers are gone: a submit_tiktok_ad with
\* music_option=existing whose music_id was validated only before the reset
\* fails with MUSIC_NOT_VALIDATED.
C3_ResetDiscardsMarkers ==
    ( /\ SubmitDispatched
      /\ get(LastArgs, "music_option", "") = "existing"
      /\ get(LastArgs, "music_id", None) \in stale_markers
      /\ get(LastArgs, "music_id", None) \notin ValidatedIds(HistoryBefore) ) =>
        Rejects(LastResult, "MUSIC_NOT_VALIDATED")

\* the half of C3 that the source keeps: reset leaves the history empty
C3_ResetEmptiesHistory ==
    [][(pc = "IDLE" /\ pc' = "IDLE" /\ chats' = chats
          /\ conversation_history' # conversation_history)
       => conversation_history' = <<>>]_vars

\* C4: when a planner call fails (the first call or the summary call), the
\* turn ends, the history is what that call was sent, the user message of
\* the turn is in it, chat returns the error message, and the next chat call
\* starts as usual from that history.
C4_PlannerFailureKeepsHistory ==
    [][ /\ ( /\ pc \in {"AWAITING_PLANNER_RESPONSE", "AWAITING_SUMMARY"}
             /\ pc' = "IDLE"
             /\ reply'.kind = "error" )
           => /\ <<SYSTEM_MESSAGE>> \o conversation_history' = call.messages
              /\ \E k \in DOMAIN conversation_history' :
                    conversation_history'[k].role = "user"
              /\ pc = "AWAITING_PLANNER_RESPONSE"
                    => conversation_history'[Len(conversation_history')].role = "user"
              /\ reply'.content \in PlannerErrors
        /\ ( /\ pc = "IDLE" /\ reply.kind = "error"
             /\ pc' = "AWAITING_PLANNER_RESPONSE" )
           => /\ Len(conversation_history') = Len(conversation_history) + 1
              /\ SubSeq(conversation_history', 1, Len(conversation_history))
                    = conversation_history
              /\ conversation_history'[Len(conversation_history')].role = "user"
              /\ call' = Request(conversation_history', TRUE)
      ]_vars

\* a chat call that followed a failed one has answered
C4_Witness ==
    /\ pc = "IDLE"
    /\ reply.kind = "text"
    /\ Len(conversation_history) = 3
    /\ conversation_history[1].role = "user"
    /\ conversation_history[2].role = "user"
    /\ conversation_history[3].role = "assistant"

\* the places of the tool results of history that carry id
ResultsFor(history, id) ==
    {k \in DOMAIN history : history[k].role = "tool" /\ history[k].tool_call_id = id}

\* C5: whenever no chat call is running, every recorded tool invocation has
\* exactly one tool result with its id, and every tool result has its
\* invocation.
C5_EveryInvocationAnswered ==
    pc = "IDLE" =>
        /\ \A tc \in RecordedCalls(conversation_history) :
              Cardinality(ResultsFor(conversation_history, tc.id)) = 1
        /\ \A r \in RecordedResults(conversation_history) :
              \E tc \in RecordedCalls(conversation_history) : tc.id = r.tool_call_id

\* the number of tool results that directly follow entry k
ResultRun(history, k) ==
    CHOOSE n \in 0..(Len(history) - k) :
        /\ \A j \in 1..n : history[k + j].role = "tool"
        /\ k + n < Len(history) => history[k + n + 1].role # "tool"

\* C6: the tool results of a turn follow its assistant message in the order
\* the planner issued the invocations, and all of them are there once the
\* summary call is made, however long each execution takes.
C6_ResultsInIssueOrder ==
    \A k \in DOMAIN conversation_history :
        "tool_calls" \in DOMAIN conversation_history[k] =>
            LET issued_calls == conversation_history[k].tool_calls
                n == ResultRun(conversation_history, k)
            IN  /\ n <= Len(issued_calls)
                /\ \A j \in 1..n :
                      conversation_history[k + j].tool_call_id = issued_calls[j].id
                /\ ( \/ k + n < Len(conversation_history)
                           /\ conversation_history[k + n + 1].role = "assistant"
                     \/ k + n = Len(conversation_history) /\ pc = "AWAITING_SUMMARY" )
                   => n = Len(issued_calls)

\* a submission that slept its second came back before the validation that
\* does not sleep, issued after it
C6_Witness ==
    /\ pc = "AWAITING_SUMMARY"
    /\ Len(tool_calls) = 2
    /\ tool_calls[1].function.name = "submit_tiktok_ad"
    /\ tool_calls[2].function.name = "validate_music_id"
    /\ conversation_history[Len(conversation_history) - 1].tool_call_id = tool_calls[1].id
    /\ conversation_history[Len(conversation_history) - 1].content[2].success
    /\ conversation_history[Len(conversation_history)].tool_call_id = tool_calls[2].id

\* C7: a submit_tiktok_ad with objective=Conversions and music_option=none has
\* MUSIC_REQUIRED among its violations whatever its other fields, and is not
\* forwarded to the backend.
C7_ConversionsWithoutMusicRejected ==
    ( /\ SubmitDispatched
      /\ get(LastArgs, "objective", "") = "Conversions"
      /\ get(LastArgs, "music_option", "") = "none" ) =>
        /\ Violation("MUSIC_REQUIRED", "music_option")
              \in validate(LastArgs, ValidatedIds(HistoryBefore))
        /\ ~SubmitForwarded

\* the tools of TOOLS and the keys each one requires
KnownTools == {"validate_music_id", "upload_custom_music", "submit_tiktok_ad"}
required(tool_name) ==
    IF tool_name = "validate_music_id" THEN {"music_id"}
    ELSE IF tool_name = "upload_custom_music" THEN {"file_info"}
    ELSE {"campaign_name", "objective", "ad_text", "cta", "music_option"}

\* the arguments of tool_call do not parse to the object its tool requires
Malformed(tool_call) ==
    \/ tool_call.function.arguments.kind # "object"
    \/ required(tool_call.function.name)
           \ DOMAIN tool_call.function.arguments.value # {}

\* the step appended exactly the tool result of tool_call
AnsweredWith(tool_call) ==
    /\ Len(conversation_history') = Len(conversation_history) + 1
    /\ SubSeq(conversation_history', 1, Len(conversation_history))
          = conversation_history
    /\ conversation_history'[Len(conversation_history')].role = "tool"
    /\ conversation_history'[Len(conversation_history')].tool_call_id = tool_call.id

\* the turn goes on: to the next invocation, or after the last to the summary call
TurnContinues ==
    /\ done' = done + 1
    /\ IF done' = Len(tool_calls)
       THEN pc' = "AWAITING_SUMMARY" /\ call' = Request(conversation_history', FALSE)
       ELSE pc' = "EXECUTING_TOOLS"

\* C8: a tool call of a known tool with malformed arguments gets a tool result
\* in the history and the turn goes on to the summary call; no exception ends
\* the turn.
C8_MalformedArgumentsAnswered ==
    [][( /\ pc = "EXECUTING_TOOLS"
         /\ tool_calls[done + 1].function.name \in KnownTools
         /\ Malformed(tool_calls[done + 1]) )
       => AnsweredWith(tool_calls[done + 1]) /\ TurnContinues]_vars

\* C9: dispatching a tool call whose name is not a known tool gives the
\* result {error: "Unknown tool"} without any backend call; the result is
\* appended as that call's tool result and the turn goes on: to the next
\* invocation, and after the last one to the summary call.
C9_UnknownToolAnswered ==
    [][( /\ pc = "EXECUTING_TOOLS"
         /\ tool_calls[done + 1].function.name \notin KnownTools
         /\ ~json_loads(tool_calls[done + 1].function.arguments).raised )
       => /\ AnsweredWith(tool_calls[done + 1])
          /\ conversation_history'[Len(conversation_history')].content
                = json_dumps([error |-> "Unknown tool"])
          /\ backend_log' = <<>>
          /\ TurnContinues]_vars

\* the answer to an unknown tool is in the history and the summary call is made
C9_Witness ==
    /\ pc = "AWAITING_SUMMARY"
    /\ done >= 1
    /\ LastName \notin KnownTools
    /\ LastResult = [error |-> "Unknown tool"]
    /\ backend_log = <<>>
    /\ ~call.tools

\* C10: submit_ad succeeds only with a token validate_token accepts; with a
\* rejected token it returns AUTH_ERROR with retry_possible whatever is drawn;
\* with an accepted token each failure is VALIDATION_ERROR/INVALID_MUSIC_ID or
\* RATE_LIMIT/TOO_MANY_REQUESTS, with retry_possible.
C10_SubmitAdOutcomes ==
    (api.op = "submit_ad" /\ api.state = "returned") =>
        LET accepted == validate_token(api.args.access_token).valid
            result == api.result
        IN  /\ result.success => accepted
            /\ ~accepted =>
                  /\ result.error_type = "AUTH_ERROR"
                  /\ result.retry_possible
                  /\ result.error_code
                        \in {"No access token provided", "TOKEN_EXPIRED", "INVALID_TOKEN"}
            /\ (accepted /\ ~result.success) =>
                  /\ <<result.error_type, result.error_code>>
                        \in {<<"VALIDATION_ERROR", "INVALID_MUSIC_ID">>,
                             <<"RATE_LIMIT", "TOO_MANY_REQUESTS">>}
                  /\ result.retry_possible

\* submit_ad has answered a token that validate_token rejects
C10_Witness ==
    /\ api.op = "submit_ad"
    /\ api.state = "returned"
    /\ ~validate_token(api.args.access_token).valid
    /\ api.result.error_type = "AUTH_ERROR"

---------------------------------------------------------------------------
(* The dispatch that is about to run. *)

\* the tool call the loop takes next, its name, its arguments as parsed
NextCall == tool_calls[done + 1]
NextName == NextCall.function.name
NextArgs == NextCall.function.arguments.value
\* the loop is about to dispatch a submit_tiktok_ad whose arguments are an object
SubmitNext ==
    /\ pc = "EXECUTING_TOOLS"
    /\ NextName = "submit_tiktok_ad"
    /\ NextCall.function.arguments.kind = "object"
\* the tool result the step appended
AppendedResult == conversation_history'[Len(conversation_history')].content[2]
\* the step called the backend submit_ad
ForwardsSubmit == \E k \in DOMAIN backend_log' : backend_log'[k].op = "submit_ad"

\* the fields of a draft that validate requires to be present
RequiredFields == {"campaign_name", "objective", "ad_text", "cta", "music_option"}

\* C11: when some of campaign_name, objective, ad_text, cta, music_option are
\* absent from the arguments of a submit_tiktok_ad, the draft is not
\* submittable, validate reports one MISSING_FIELD for each absent field, and
\* the dispatch answers with the rejection that carries them, without calling
\* submit_ad.
C11_MissingFieldsReported ==
    [][(SubmitNext /\ RequiredFields \ DOMAIN NextArgs # {})
       => LET missing == {Violation("MISSING_FIELD", f) :
                             f \in RequiredFields \ DOMAIN NextArgs}
              found == validate(NextArgs, ValidatedIds(conversation_history))
          IN  /\ ~is_submittable(NextArgs, ValidatedIds(conversation_history))
              /\ {v \in found : v.code = "MISSING_FIELD"} = missing
              /\ AnsweredWith(NextCall)
              /\ ~ForwardsSubmit
              /\ IsRejection(AppendedResult)
              /\ {v \in AppendedResult.violations : v.code = "MISSING_FIELD"}
                    = missing]_vars

\* C12: a submit_tiktok_ad with a campaign_name of 2 characters is rejected
\* with TOO_SHORT and one of 3 characters has no TOO_SHORT; with an ad_text of
\* 101 characters it is rejected with TOO_LONG and one of 100 characters has
\* no TOO_LONG.
C12_LengthBoundaries ==
    SubmitDispatched =>
        LET found == validate(LastArgs, ValidatedIds(HistoryBefore))
            name == get(LastArgs, "campaign_name", <<>>)
            text == get(LastArgs, "ad_text", <<>>)
        IN  /\ Len(name) = 2 =>
                  /\ Violation("TOO_SHORT", "campaign_name") \in found
                  /\ ~SubmitForwarded
                  /\ Rejects(LastResult, "TOO_SHORT")
            /\ Len(name) = 3 => Violation("TOO_SHORT", "campaign_name") \notin found
            /\ Len(text) = 101 =>
                  /\ Violation("TOO_LONG", "ad_text") \in found
                  /\ ~SubmitForwarded
                  /\ Rejects(LastResult, "TOO_LONG")
            /\ Len(text) = 100 => Violation("TOO_LONG", "ad_text") \notin found

\* C13: a submit_tiktok_ad with objective=Traffic, music_option=none and a
\* campaign_name, ad_text and cta that are present and within the length
\* rules is submittable and is forwarded to submit_ad, whose result is the
\* tool result, with or without a music_id and with no music validated.
C13_TrafficWithoutMusicForwarded ==
    [][( /\ SubmitNext
         /\ {"campaign_name", "ad_text", "cta"} \subseteq DOMAIN NextArgs
         /\ get(NextArgs, "objective", "") = "Traffic"
         /\ get(NextArgs, "music_option", "") = "none"
         /\ Len(NextArgs["campaign_name"]) >= MIN_CAMPAIGN_NAME
         /\ Len(NextArgs["ad_text"]) <= MAX_AD_TEXT )
       => /\ is_submittable(NextArgs, ValidatedIds(conversation_history))
          /\ AnsweredWith(NextCall)
          /\ ForwardsSubmit
          /\ "success" \in DOMAIN AppendedResult
          /\ ~IsRejection(AppendedResult)]_vars

\* a Traffic submission without music and without music_id was forwarded and
\* accepted by the backend
C13_Witness ==
    /\ SubmitDispatched
    /\ get(LastArgs, "objective", "") = "Traffic"
    /\ get(LastArgs, "music_option", "") = "none"
    /\ "music_id" \notin DOMAIN LastArgs
    /\ ValidatedIds(HistoryBefore) = {}
    /\ SubmitForwarded
    /\ LastResult.success

\* C14: validate_token gives each token one outcome, fixed by the token: the
\* empty token is invalid with "No access token provided"; else a token of
\* the allow-list or starting with "act." is valid with advertiser adv_123456
\* and the three scopes; else a token with "expired" in it, in any letter
\* case, is invalid with TOKEN_EXPIRED; any other is invalid with
\* INVALID_TOKEN.
C14_ValidateTokenClassifies ==
    (api.op = "validate_token" /\ api.state = "returned") =>
        LET token == api.args.token
            result == api.result
            allowed ==
                \/ token \in {mock_token_12345, DEMO_TOKEN}
                \/ Len(token) >= 4 /\ SubSeq(token, 1, 4) = <<"a", "c", "t", ".">>
            expired ==
                \E k \in 1..(Len(token) - 6) :
                    lower(SubSeq(token, k, k + 6)) = <<"e", "x", "p", "i", "r", "e", "d">>
        IN  IF token = <<>> THEN
                result = [valid |-> FALSE, error |-> "No access token provided"]
            ELSE IF allowed THEN
                /\ result.valid
                /\ result.advertiser_id = "adv_123456"
                /\ result.scopes = <<"ad.create", "ad.read", "campaign.create">>
                /\ "error" \notin DOMAIN result
            ELSE IF expired THEN
                ~result.valid /\ result.error = "TOKEN_EXPIRED"
            ELSE
                ~result.valid /\ result.error = "INVALID_TOKEN"

\* a token with EXPIRED in capitals was answered TOKEN_EXPIRED
C14_Witness ==
    /\ api.op = "validate_token"
    /\ api.state = "returned"
    /\ api.args.token = tok_EXPIRED
    /\ api.result.error = "TOKEN_EXPIRED"

\* C15: validate_music_id answers valid exactly for the ids of the library,
\* with a duration from 15 to 60; an id that starts with "music_" and is not
\* in the library gets MUSIC_NOT_FOUND, any other id INVALID_FORMAT; the
\* verdict and the error code are fixed by the id, whatever is drawn.
C15_ValidateMusicIdClassifies ==
    (api.op = "validate_music_id" /\ api.state = "returned") =>
        LET music_id == api.args.music_id
            result == api.result
            prefixed ==
                Len(music_id) >= 6
                /\ SubSeq(music_id, 1, 6) = <<"m", "u", "s", "i", "c", "_">>
        IN  /\ result.valid <=> music_id \in VALID_MUSIC_IDS
            /\ result.valid =>
                  /\ result.duration \in 15..60
                  /\ "error_code" \notin DOMAIN result
            /\ ~result.valid =>
                  result.error_code =
                      IF prefixed THEN "MUSIC_NOT_FOUND" ELSE "INVALID_FORMAT"

\* a library id was answered valid with the longest duration
C15_Witness ==
    /\ api.op = "validate_music_id"
    /\ api.state = "returned"
    /\ api.args.music_id = music_123
    /\ api.result.valid
    /\ api.result.duration = 60

\* the payload the last dispatch passed to submit_ad
SubmittedPayload ==
    backend_log[CHOOSE k \in DOMAIN backend_log : backend_log[k].op = "submit_ad"].payload

\* C16: the payload passed to submit_ad is fixed by the arguments of the
\* submit_tiktok_ad call alone, whatever the session holds: it is what
\* AdPayload.to_dict gives for the same field values, with the keys
\* campaign_name, objective and creative, creative having text (the ad_text),
\* cta and music_id, and music_id None when the arguments have none.
C16_PayloadFromArguments ==
    (SubmitDispatched /\ SubmitForwarded) =>
        /\ Len(backend_log) = 1
        /\ SubmittedPayload =
              to_dict(AdPayload(LastArgs["campaign_name"], LastArgs["objective"],
                                LastArgs["ad_text"], LastArgs["cta"],
                                get(LastArgs, "music_id", None),
                                get(LastArgs, "music_option", None)))
        /\ DOMAIN SubmittedPayload = {"campaign_name", "objective", "creative"}
        /\ DOMAIN SubmittedPayload.creative = {"text", "cta", "music_id"}
        /\ SubmittedPayload.creative.text = LastArgs["ad_text"]
        /\ "music_id" \notin DOMAIN LastArgs =>
              SubmittedPayload.creative.music_id = None
        /\ LastResult.success => LastResult.payload = SubmittedPayload

\* a submission without music_id went out with music_id None in a session
\* that had validated a music id before
C16_Witness ==
    /\ SubmitDispatched
    /\ SubmitForwarded
    /\ "music_id" \notin DOMAIN LastArgs
    /\ ValidatedIds(HistoryBefore) # {}
    /\ SubmittedPayload.creative.music_id = None
    /\ LastResult.success

\* C17: while the summary call is in flight every tool call of the turn has
\* been dispatched and the history ends with the assistant message of the
\* turn followed by one tool result per tool call, in order; the call was
\* made without the tools and with that whole history; and no call without
\* tools is in flight at any other point.
C17_SummaryAfterAllResults ==
    /\ pc = "AWAITING_SUMMARY" =>
          LET n == Len(tool_calls)
              m == Len(conversation_history)
          IN  /\ n >= 1
              /\ done = n
              /\ m > n
              /\ conversation_history[m - n].role = "assistant"
              /\ conversation_history[m - n].tool_calls = tool_calls
              /\ \A j \in 1..n :
                    /\ conversation_history[m - n + j].role = "tool"
                    /\ conversation_history[m - n + j].tool_call_id = tool_calls[j].id
              /\ ~call.tools
              /\ call.messages = <<SYSTEM_MESSAGE>> \o conversation_history
    /\ (call # NoCall /\ ~call.tools) => pc = "AWAITING_SUMMARY"

\* the summary call of a turn with two tool calls is in flight with both
\* results in its messages
C17_Witness ==
    /\ pc = "AWAITING_SUMMARY"
    /\ Len(tool_calls) = 2
    /\ ~call.tools
    /\ call.messages[Len(call.messages) - 1].role = "tool"
    /\ call.messages[Len(call.messages) - 1].tool_call_id = tool_calls[1].id
    /\ call.messages[Len(call.messages)].role = "tool"
    /\ call.messages[Len(call.messages)].tool_call_id = tool_calls[2].id

\* C18: a chat call that is running returns (the agent is IDLE again), given
\* that the calls it waits for return or fail.  A turn starts from IDLE by
\* the first planner call; from there it ends directly or, with tool calls,
\* goes to the tool loop; the tool loop goes on to the summary call or ends
\* on a failure; the summary call ends the turn; and a turn with tool calls
\* that ends with a text has gone through the summary call.
C18_TurnsReturnToIdle ==
    /\ (pc # "IDLE") ~> (pc = "IDLE")
    /\ [][ /\ (pc = "IDLE" /\ pc' # "IDLE") => pc' = "AWAITING_PLANNER_RESPONSE"
           /\ pc = "AWAITING_PLANNER_RESPONSE" =>
                 /\ pc' \in {"IDLE", "EXECUTING_TOOLS"}
                 /\ pc' = "EXECUTING_TOOLS" <=> tool_calls' # <<>>
           /\ pc = "EXECUTING_TOOLS" =>
                 /\ pc' \in {"EXECUTING_TOOLS", "AWAITING_SUMMARY", "IDLE"}
                 /\ pc' = "IDLE" => reply'.kind = "error"
           /\ pc = "AWAITING_SUMMARY" => pc' = "IDLE"
           /\ (pc' = "IDLE" /\ pc # "IDLE" /\ reply'.kind = "text") =>
                 pc \in {"AWAITING_PLANNER_RESPONSE", "AWAITING_SUMMARY"}
         ]_vars

\* a turn whose tool loop raised has returned: the history ends with its
\* assistant message, chat has returned the error message
C18_Witness ==
    /\ pc = "IDLE"
    /\ reply.kind = "error"
    /\ conversation_history # <<>>
    /\ "tool_calls" \in DOMAIN conversation_history[Len(conversation_history)]

\* s is a prefix of t
IsPrefix(s, t) == Len(s) <= Len(t) /\ SubSeq(t, 1, Len(s)) = s

\* C19: every step of a chat call (every step but a reset) leaves the history
\* it found as a prefix of the history it leaves, and a planner call in
\* flight holds the system prompt followed by the whole history, in order.
C19_HistoryAppendOnly ==
    [][ /\ (pc # "IDLE" \/ pc' # "IDLE") =>
              IsPrefix(conversation_history, conversation_history')
        /\ call' # NoCall =>
              call'.messages = <<SYSTEM_MESSAGE>> \o conversation_history'
      ]_vars

\* two chat calls without a reset between them: the second turn, with a tool
\* call, stands in the history after the first
C19_Witness ==
    /\ pc = "IDLE"
    /\ chats = 2
    /\ Len(conversation_history) = 6
    /\ conversation_history[1].role = "user"
    /\ conversation_history[2].role = "assistant"
    /\ conversation_history[3].role = "user"
    /\ "tool_calls" \in DOMAIN conversation_history[4]
    /\ conversation_history[5].role = "tool"
    /\ conversation_history[6].role = "assistant"

\* C20: a chat call starts by appending one user message and appends no other
\* user message afterwards; when it returns the planner's text, the last
\* entry of the history is an assistant message without tool calls whose
\* content is the text returned.
C20_UserFirstAssistantLast ==
    [][ /\ (pc = "IDLE" /\ pc' # "IDLE") =>
              /\ Len(conversation_history') = Len(conversation_history) + 1
              /\ IsPrefix(conversation_history, conversation_history')
              /\ conversation_history'[Len(conversation_history')].role = "user"
              /\ conversation_history'[Len(conversation_history')].content
                    \in UserInputs
        /\ pc # "IDLE" =>
              \A k \in (Len(conversation_history) + 1)..Len(conversation_history') :
                  conversation_history'[k].role # "user"
        /\ (pc # "IDLE" /\ pc' = "IDLE" /\ reply'.kind = "text") =>
              LET last == conversation_history'[Len(conversation_history')]
              IN  /\ last.role = "assistant"
                  /\ "tool_calls" \notin DOMAIN last
                  /\ last.content = reply'.content
      ]_vars

\* a chat call with one tool call has returned the summary: user message
\* first, the summary last
C20_Witness ==
    /\ pc = "IDLE"
    /\ chats = 1
    /\ reply.kind = "text"
    /\ Len(conversation_history) = 4
    /\ conversation_history[1].role = "user"
    /\ "tool_calls" \in DOMAIN conversation_history[2]
    /\ conversation_history[3].role = "tool"
    /\ conversation_history[4] = [role |-> "assistant", content |-> reply.content]

\* the token the last dispatch passed to submit_ad
SubmittedToken ==
    backend_log[CHOOSE k \in DOMAIN backend_log :
                    backend_log[k].op = "submit_ad"].access_token

\* C21: an agent whose access token starts with "act.", the demo token of an
\* agent constructed without one included, holds a token validate_token
\* answers valid, with "expired" in it or not; its submissions go to
\* submit_ad with that token and never come back with AUTH_ERROR.
C21_ActPrefixBeatsExpiry ==
    (Len(access_token) >= 4 /\ SubSeq(access_token, 1, 4) = <<"a", "c", "t", ".">>) =>
        /\ validate_token(access_token).valid
        /\ "error" \notin DOMAIN validate_token(access_token)
        /\ (SubmitDispatched /\ SubmitForwarded) =>
              /\ SubmittedToken = access_token
              /\ get(LastResult, "error_type", "") # "AUTH_ERROR"
              /\ ~LastResult.success =>
                    LastResult.error_type \in {"VALIDATION_ERROR", "RATE_LIMIT"}

\* an agent constructed with "act.expired" has had a submission accepted
C21_Witness ==
    /\ access_token = act_expired
    /\ contains(lower(access_token), EXPIRED)
    /\ SubmitDispatched
    /\ SubmitForwarded
    /\ LastResult.success

\* an agent constructed without a token has had a submission answered by
\* the backend with a failure that is no AUTH_ERROR
C21_WitnessDemoToken ==
    /\ access_token = DEMO_TOKEN
    /\ SubmitDispatched
    /\ SubmitForwarded
    /\ ~LastResult.success
    /\ LastResult.error_type = "RATE_LIMIT"

====
